---- MODULE Spec2Model ----
(***************************************************************************)
(* Model of the movie / TV-series rating views: the four list components   *)
(* (MovieList, TVSeriesList, TopMovies, TopTVSeries), each with its own    *)
(* subscription to the single backend collection "movies", the rating and  *)
(* delete handlers of the two list views, the aggregate computation, the   *)
(* filter/sort pipeline and the pagination arithmetic.                     *)
(***************************************************************************)
EXTENDS Integers, Sequences, FiniteSets, TLC

(***************************************************************************)
(* Bounds of the model and program constants.                              *)
(***************************************************************************)
MaxRecords == 2          \* push ids handed out by the backend: 1..MaxRecords
MaxTime == 1             \* Date.now() ranges over 0..MaxTime
MaxPageRecords == 31     \* records of the collections that fill several pages
MaxAvgKeys == 3          \* per-rater submission keys in the aggregation specification
MaxListeners == 3        \* listeners one view registers
itemsPerPage == 15
CurrentYear == 2024      \* new Date().getFullYear()

Users == {"u1", "u2"}
NoUser == "none"                     \* useAuth().user is null
Undefined == "undefined"             \* a field a record does not have
ContentTypes == {"movie", "tv-series"}
Years == {CurrentYear - 1, CurrentYear}
FormRatings == {4}                   \* ratings entered in the submission form
RatingChoices == {10}                \* the rating button pressed (of 1..10)

ListViews == {"MovieList", "TVSeriesList"}
TopViews == {"TopMovies", "TopTVSeries"}
Views == ListViews \cup TopViews
Ids == 1..MaxRecords

\* The contentType literal of each component's filter.
ViewContentType(v) ==
  IF v \in {"MovieList", "TopMovies"} THEN "movie" ELSE "tv-series"

VARIABLES
  db,            \* the backend collection "movies": push id -> record
  nextId,        \* the next push id the backend hands out
  clock,         \* the latest value Date.now() has returned
  user,          \* useAuth().user: a user id, or NoUser
  list,          \* per view: useState movies / series
  sortBy,        \* per list view: useState sortBy
  selectedYear,  \* per Top view: useState selectedYear
  currentPage,   \* per view: useState currentPage
  toast,         \* the notification the last step raised ("" if none)
  request,       \* the backend call the last step issued ("none" if none)
  focus,         \* view specification: the view whose subscription is followed
  avgInput,      \* SpecAvg, SpecIndicator: the record computed on / rendered
  avgOutput,     \* SpecAvg, SpecIndicator: the value computed / what is rendered
  subs           \* the backend listeners of the views' effects (SpecListeners)

vars == <<db, nextId, clock, user, list, sortBy, selectedYear, currentPage,
          toast, request, focus, avgInput, avgOutput, subs>>

(***************************************************************************)
(* Aggregation.                                                            *)
(***************************************************************************)
EmptyMap == [x \in {} |-> 0]

RECURSIVE SumSeq(_)
SumSeq(s) == IF s = <<>> THEN 0 ELSE Head(s) + SumSeq(Tail(s))

\* Object.values(m) of a map with integer-like keys: the values in ascending
\* key order.
RECURSIVE ObjectValues(_)
ObjectValues(m) ==
  IF DOMAIN m = {} THEN <<>>
  ELSE LET k == CHOOSE x \in DOMAIN m : \A y \in DOMAIN m : x <= y
       IN <<m[k]>> \o ObjectValues([y \in DOMAIN m \ {k} |-> m[y]])

\* Variant: the type of the value is not looked at.
IsNumberEntry_Any(e) == TRUE

\* rating && typeof rating.value === 'number'
IsNumberEntry(e) == e.vtype = "number"

\* The inner forEach: every entry of one rater whose value is a number is pushed.
RECURSIVE PushNumbers(_)
PushNumbers(es) ==
  IF es = <<>> THEN <<>>
  ELSE (IF IsNumberEntry(Head(es)) THEN <<Head(es).value>> ELSE <<>>)
       \o PushNumbers(Tail(es))

\* The outer forEach over Object.values(movie.ratings).
RECURSIVE PushAll(_)
PushAll(rs) ==
  IF DOMAIN rs = {} THEN <<>>
  ELSE LET u == CHOOSE x \in DOMAIN rs : TRUE
       IN PushNumbers(ObjectValues(rs[u]))
          \o PushAll([y \in DOMAIN rs \ {u} |-> rs[y]])

\* The array `ratings` of calculateAverageRating: the original rating, then
\* every pushed value.
RatingsArray(movie) == <<movie.rating>> \o PushAll(movie.ratings)

\* (sum / len).toFixed(1): the decimal string "i.f", kept as its two parts.
\* The quotient is rounded to the nearest tenth, a tie going to the larger
\* value (a tie is an odd multiple of 1/4 for len < 20, exact in binary).
toFixed1(sum, len) ==
  LET t == (20 * sum + len) \div (2 * len)
  IN [int |-> t \div 10, frac |-> t % 10]

\* calculateAverageRating of MovieList.
calculateAverageRating(movie) ==
  LET ratings == RatingsArray(movie)
  IN toFixed1(SumSeq(ratings), Len(ratings))

\* calculateAverageRating of TVSeriesList.
calculateAverageRating_TVSeriesList(series) ==
  LET ratings == RatingsArray(series)
  IN toFixed1(SumSeq(ratings), Len(ratings))

\* Variant: the copy of TopMovies rounds to a whole number, toFixed(0).
calculateAverageRating_Whole(movie) ==
  LET ratings == RatingsArray(movie)
  IN [int |-> (2 * SumSeq(ratings) + Len(ratings)) \div (2 * Len(ratings)),
      frac |-> 0]

\* calculateAverageRating of TopMovies.
calculateAverageRating_TopMovies(movie) ==
  LET ratings == RatingsArray(movie)
  IN toFixed1(SumSeq(ratings), Len(ratings))

\* calculateAverageRating of TopTVSeries.
calculateAverageRating_TopTVSeries(series) ==
  LET ratings == RatingsArray(series)
  IN toFixed1(SumSeq(ratings), Len(ratings))

\* The copy that component v calls.
calculateAverageRatingOf(v, m) ==
  CASE v = "MovieList" -> calculateAverageRating(m)
    [] v = "TVSeriesList" -> calculateAverageRating_TVSeriesList(m)
    [] v = "TopMovies" -> calculateAverageRating_TopMovies(m)
    [] v = "TopTVSeries" -> calculateAverageRating_TopTVSeries(m)

\* parseFloat of a string "i.f", in tenths.
parseFloat(s) == 10 * s.int + s.frac

(***************************************************************************)
(* The filter / sort pipeline of the onValue callbacks.                    *)
(***************************************************************************)
\* Object.entries(data).map(([id, movie]) => ({id, ...movie})), in the order
\* of the push ids.
RECURSIVE Entries(_, _)
Entries(data, ids) ==
  IF ids = {} THEN <<>>
  ELSE LET i == CHOOSE x \in ids : \A y \in ids : x <= y
       IN <<[id |-> i, movie |-> data[i]]>> \o Entries(data, ids \ {i})

\* Variant: the year is not filtered on.
Matches_AnyYear(v, p, m) == m.contentType = ViewContentType(v)

\* The filter predicate of view v with its parameter p (the selected year of a
\* Top view; unused in a list view).
Matches(v, p, m) ==
  IF v \in TopViews
    THEN m.contentType = ViewContentType(v) /\ m.year = p
    ELSE m.contentType = ViewContentType(v)

RECURSIVE FilterSeq(_, _, _)
FilterSeq(s, v, p) ==
  IF s = <<>> THEN <<>>
  ELSE (IF Matches(v, p, Head(s).movie) THEN <<Head(s)>> ELSE <<>>)
       \o FilterSeq(Tail(s), v, p)

\* The number the comparator orders by: b.timestamp - a.timestamp when a list
\* view sorts by 'latest', avgB - avgA otherwise (always, in a Top view).
SortKey(v, p, m) ==
  IF v \in ListViews /\ p = "latest"
    THEN m.timestamp
    ELSE parseFloat(calculateAverageRatingOf(v, m))

\* One step of Array.prototype.sort with the comparator keyB - keyA, which is
\* descending and stable: x, which came after every element of ks in the
\* input, goes behind the elements whose key is not smaller than its own.
InsertSorted(x, ks) ==
  LET k == Cardinality({i \in 1..Len(ks) : ks[i].key >= x.key})
  IN SubSeq(ks, 1, k) \o <<x>> \o SubSeq(ks, k + 1, Len(ks))

RECURSIVE SortKeyed(_)
SortKeyed(ks) ==
  IF ks = <<>> THEN <<>>
  ELSE InsertSorted(ks[Len(ks)], SortKeyed(SubSeq(ks, 1, Len(ks) - 1)))

\* The element of a one-element set: Only({F(x) : x \in {e}}) is F(e) with e
\* computed once, however often F refers to x.
Only(S) == CHOOSE x \in S : TRUE

SortList(s, v, p) ==
  LET Keyed(t) == <<>> \o [i \in 1..Len(t) |->
                             [key |-> SortKey(v, p, t[i].movie), item |-> t[i]]]
      Items(keyed) == LET sorted == SortKeyed(keyed)
                      IN [i \in 1..Len(keyed) |-> sorted[i].item]
  IN Only({Items(keyed) : keyed \in {Keyed(t) : t \in {s}}})

\* Variant: the effect never re-runs, so that the callback keeps the parameter
\* value of the first render.
ViewParam_FirstRender(v) == IF v \in ListViews THEN "latest" ELSE CurrentYear

\* The parameter the effect of view v closes over.
ViewParam(v) == IF v \in ListViews THEN sortBy[v] ELSE selectedYear[v]

\* The value handed to setMovies / setSeries for snapshot value `data` (a map
\* with an empty domain stands for null).
SnapshotList(data, v, p) ==
  IF DOMAIN data # {}
    THEN Only({SortList(filtered, v, p) :
                 filtered \in {FilterSeq(entries, v, p) :
                                 entries \in {Entries(data, DOMAIN data)}}})
    ELSE <<>>

(***************************************************************************)
(* Pagination.                                                             *)
(***************************************************************************)
\* Variant: the page count is rounded down.
totalPages_Floor(v) == Len(list[v]) \div itemsPerPage

\* Math.ceil(length / itemsPerPage)
totalPages(v) == (Len(list[v]) + itemsPerPage - 1) \div itemsPerPage
startIndex(v) == (currentPage[v] - 1) * itemsPerPage
endIndex(v) == startIndex(v) + itemsPerPage
Min(a, b) == IF a <= b THEN a ELSE b
Max(a, b) == IF a >= b THEN a ELSE b
\* Array.prototype.slice(start, end) on a 0-based array.
Slice(s, start, end) == SubSeq(s, Min(start, Len(s)) + 1, Min(end, Len(s)))
currentMovies(v) == Slice(list[v], startIndex(v), endIndex(v))

\* Variant: the rank is counted within the page.
rank_InPage(v, index) == index + 1

\* The rank badge of a Top view, #{startIndex + index + 1}, for the entry at
\* (0-based) index `index` of currentMovies.
rank(v, index) == startIndex(v) + index + 1

(***************************************************************************)
(* Records and the backend's write operations.                             *)
(***************************************************************************)
\* A record as the submission form writes it.
NewRecord(ct, yr, rt, u, t) ==
  [contentType |-> ct, year |-> yr, timestamp |-> t, userId |-> u,
   rating |-> rt, ratings |-> EmptyMap]

\* What exists at movies/<id> when only movies/<id>/ratings/... was written:
\* every other field is undefined (-1 stands for an undefined number).
PartialRecord ==
  [contentType |-> Undefined, year |-> -1, timestamp |-> -1,
   userId |-> Undefined, rating |-> -1, ratings |-> EmptyMap]

\* remove(ref(db, `movies/${id}`))
Remove(data, id) == [i \in DOMAIN data \ {id} |-> data[i]]

\* Variant: update(ref(db, `movies/${id}`), {ratings: {[u]: {[key]: entry}}}),
\* which sets the child `ratings` as a whole.
Update_Ratings(data, id, u, key, entry) ==
  LET base == IF id \in DOMAIN data THEN data[id] ELSE PartialRecord
  IN [i \in DOMAIN data \cup {id} |->
        IF i = id
          THEN [base EXCEPT !.ratings = [x \in {u} |-> [k \in {key} |-> entry]]]
          ELSE data[i]]

\* update(ref(db, `movies/${id}/ratings/${u}`), {[key]: entry}): the child
\* `key` is set, its siblings are kept, and missing parents are created.
Update(data, id, u, key, entry) ==
  LET base == IF id \in DOMAIN data THEN data[id] ELSE PartialRecord
      old == IF u \in DOMAIN base.ratings THEN base.ratings[u] ELSE EmptyMap
      mine == [k \in DOMAIN old \cup {key} |-> IF k = key THEN entry ELSE old[k]]
      all == [x \in DOMAIN base.ratings \cup {u} |->
                IF x = u THEN mine ELSE base.ratings[x]]
  IN [i \in DOMAIN data \cup {id} |->
        IF i = id THEN [base EXCEPT !.ratings = all] ELSE data[i]]

\* The values Date.now() can return next: time does not run backwards.
Now == {t \in clock..(clock + 1) : t <= MaxTime}

(***************************************************************************)
(* Notifications.                                                          *)
(***************************************************************************)
SignInToDelete == "Please sign in to delete"
SignInToRate == "Please sign in to rate"
CannotRateOwn(v) ==
  IF v = "MovieList" THEN "You cannot rate your own movie"
  ELSE "You cannot rate your own TV Series"
Deleted(v) ==
  IF v = "MovieList" THEN "Movie deleted successfully"
  ELSE "TV Series deleted successfully"
DeleteFailed(v) ==
  IF v = "MovieList" THEN "Failed to delete movie"
  ELSE "Failed to delete TV Series"
RatingAdded == "Rating added successfully"
RatingFailed == "Failed to add rating"

(***************************************************************************)
(* The initial state: every component mounted, nothing delivered yet.      *)
(***************************************************************************)
\* The value of avgOutput before anything was computed.
NotComputed == [int |-> -1, frac |-> 0]

\* A listener: the callback an effect passed to onValue, with the parameter
\* value (sortBy / selectedYear) it closes over.
Listener(lid, param) == [lid |-> lid, param |-> param]

\* Every effect has run once, with the parameter of the first render: one
\* listener per view.  `deps` is the dependency value of the last run,
\* `detached` the listeners unsubscribed, `caller` the listener whose callback
\* the last step ran (0 if none).
InitSubs ==
  subs = [active |-> [v \in Views |->
                        {Listener(1, IF v \in ListViews THEN "latest" ELSE CurrentYear)}],
          detached |-> [v \in Views |-> {}],
          next |-> [v \in Views |-> 2],
          deps |-> [v \in Views |-> IF v \in ListViews THEN "latest" ELSE CurrentYear],
          caller |-> 0]

InitViews ==
  /\ InitSubs
  /\ list = [v \in Views |-> <<>>]
  /\ sortBy = [v \in ListViews |-> "latest"]
  /\ selectedYear = [v \in TopViews |-> CurrentYear]
  /\ currentPage = [v \in Views |-> 1]
  /\ user = NoUser
  /\ toast = ""
  /\ request = "none"

InitBackend ==
  /\ db = EmptyMap
  /\ nextId = 1
  /\ clock = 0

Init ==
  /\ InitBackend
  /\ InitViews
  /\ focus = "MovieList"
  /\ avgInput = PartialRecord
  /\ avgOutput = NotComputed

(***************************************************************************)
(* The session (UserProfile).                                              *)
(***************************************************************************)
handleSignIn(u) ==
  /\ user = NoUser
  /\ user' = u
  /\ toast' = "Welcome!"
  /\ request' = "none"
  /\ UNCHANGED <<db, nextId, clock, list, sortBy, selectedYear, currentPage,
                 focus, avgInput, avgOutput, subs>>

handleSignOut ==
  /\ user # NoUser
  /\ user' = NoUser
  /\ toast' = "Signed out successfully!"
  /\ request' = "none"
  /\ UNCHANGED <<db, nextId, clock, list, sortBy, selectedYear, currentPage,
                 focus, avgInput, avgOutput, subs>>

(***************************************************************************)
(* The submission form: the signed-in user creates a record under a fresh  *)
(* push id.                                                                *)
(***************************************************************************)
Submit(ct, yr, rt) ==
  /\ user # NoUser
  /\ nextId <= MaxRecords
  /\ \E t \in Now :
       /\ db' = [i \in DOMAIN db \cup {nextId} |->
                   IF i = nextId THEN NewRecord(ct, yr, rt, user, t) ELSE db[i]]
       /\ clock' = t
  /\ nextId' = nextId + 1
  /\ toast' = ""
  /\ request' = "push"
  /\ UNCHANGED <<user, list, sortBy, selectedYear, currentPage,
                 focus, avgInput, avgOutput, subs>>

(***************************************************************************)
(* The subscription of each view (useEffect / onValue) and its parameters. *)
(***************************************************************************)
\* The onValue callback of view v runs on the snapshot value `data`.
Deliver(v, data) ==
  /\ list' = [list EXCEPT ![v] = SnapshotList(data, v, ViewParam(v))]
  /\ toast' = ""
  /\ request' = "none"
  /\ UNCHANGED <<nextId, clock, user, sortBy, selectedYear, currentPage,
                 focus, avgInput, avgOutput, subs>>

\* Variant: a single read; once the view holds a list its callback is not
\* called again.
onValue_Once(v) ==
  /\ list[v] = <<>>
  /\ Deliver(v, db)
  /\ UNCHANGED db

\* The backend delivers the collection as it is to the listener of view v.
onValue(v) ==
  /\ Deliver(v, db)
  /\ UNCHANGED db

\* The sort select of a list view; the effect re-subscribes with the new value.
setSortBy(v, s) ==
  /\ v \in ListViews
  /\ s # sortBy[v]
  /\ sortBy' = [sortBy EXCEPT ![v] = s]
  /\ toast' = ""
  /\ request' = "none"
  /\ UNCHANGED <<db, nextId, clock, user, list, selectedYear, currentPage,
                 focus, avgInput, avgOutput, subs>>

\* The year select of a Top view; the effect re-subscribes with the new value.
setSelectedYear(v, y) ==
  /\ v \in TopViews
  /\ y # selectedYear[v]
  /\ selectedYear' = [selectedYear EXCEPT ![v] = y]
  /\ toast' = ""
  /\ request' = "none"
  /\ UNCHANGED <<db, nextId, clock, user, list, sortBy, currentPage,
                 focus, avgInput, avgOutput, subs>>

(***************************************************************************)
(* The handlers of the list views.                                         *)
(***************************************************************************)
\* The ids of the entries the view renders: the handlers are bound to these.
RenderedIds(v) ==
  {currentMovies(v)[i].id : i \in 1..Len(currentMovies(v))}

\* Variant: the sign-in check is missing.
NotSignedIn_Skipped == FALSE

\* if (!user)
NotSignedIn == user = NoUser

\* movies.find(m => m.id === movieId)?.userId
FindUserId(v, movieId) ==
  LET hits == {i \in 1..Len(list[v]) : list[v][i].id = movieId}
  IN IF hits = {} THEN Undefined
     ELSE list[v][CHOOSE i \in hits : \A j \in hits : i <= j].movie.userId

\* Variant: the own-content check is missing.
IsOwnContent_Skipped(v, movieId) == FALSE

\* movies.find(m => m.id === movieId)?.userId === user.id
IsOwnContent(v, movieId) == FindUserId(v, movieId) = user

\* const ratingData = {value: rating, timestamp: Date.now()}
RatingData(rating, t) == [value |-> rating, vtype |-> "number", timestamp |-> t]

\* Variant: only the creator may delete.
handleDelete_OwnerOnly(v, movieId) ==
  /\ v \in ListViews
  /\ movieId \in RenderedIds(v)
  /\ \/ /\ NotSignedIn \/ ~ IsOwnContent(v, movieId)
        /\ toast' = SignInToDelete
        /\ request' = "none"
        /\ UNCHANGED db
     \/ /\ ~ NotSignedIn
        /\ IsOwnContent(v, movieId)
        /\ request' = "remove"
        /\ \/ /\ db' = Remove(db, movieId)
              /\ toast' = Deleted(v)
           \/ /\ toast' = DeleteFailed(v)
              /\ UNCHANGED db
  /\ UNCHANGED <<nextId, clock, user, list, sortBy, selectedYear, currentPage,
                 focus, avgInput, avgOutput, subs>>

handleDelete(v, movieId) ==
  /\ v \in ListViews
  /\ movieId \in RenderedIds(v)
  /\ \/ /\ NotSignedIn
        /\ toast' = SignInToDelete
        /\ request' = "none"
        /\ UNCHANGED db
     \/ /\ ~ NotSignedIn
        /\ request' = "remove"
        /\ \/ /\ db' = Remove(db, movieId)
              /\ toast' = Deleted(v)
           \/ /\ toast' = DeleteFailed(v)
              /\ UNCHANGED db
  /\ UNCHANGED <<nextId, clock, user, list, sortBy, selectedYear, currentPage,
                 focus, avgInput, avgOutput, subs>>

\* Variant: a successful rating is patched into the view's own list at once.
handleRating_Optimistic(v, movieId, rating) ==
  /\ v \in ListViews
  /\ movieId \in RenderedIds(v)
  /\ \/ /\ NotSignedIn
        /\ toast' = SignInToRate
        /\ request' = "none"
        /\ UNCHANGED <<db, clock, list>>
     \/ /\ ~ NotSignedIn
        /\ IsOwnContent(v, movieId)
        /\ toast' = CannotRateOwn(v)
        /\ request' = "none"
        /\ UNCHANGED <<db, clock, list>>
     \/ /\ ~ NotSignedIn
        /\ ~ IsOwnContent(v, movieId)
        /\ request' = "update"
        /\ \E t1 \in Now :
             \E t2 \in {t \in t1..(t1 + 1) : t <= MaxTime} :
               /\ clock' = t2
               /\ \/ /\ db' = Update(db, movieId, user, t2, RatingData(rating, t1))
                     /\ toast' = RatingAdded
                     /\ list' = [list EXCEPT ![v] =
                                   [i \in 1..Len(list[v]) |->
                                      IF list[v][i].id = movieId
                                        THEN [list[v][i] EXCEPT !.movie = db'[movieId]]
                                        ELSE list[v][i]]]
                  \/ /\ toast' = RatingFailed
                     /\ UNCHANGED <<db, list>>
  /\ UNCHANGED <<nextId, user, sortBy, selectedYear, currentPage,
                 focus, avgInput, avgOutput, subs>>

handleRating(v, movieId, rating) ==
  /\ v \in ListViews
  /\ movieId \in RenderedIds(v)
  /\ \/ /\ NotSignedIn
        /\ toast' = SignInToRate
        /\ request' = "none"
        /\ UNCHANGED <<db, clock>>
     \/ /\ ~ NotSignedIn
        /\ IsOwnContent(v, movieId)
        /\ toast' = CannotRateOwn(v)
        /\ request' = "none"
        /\ UNCHANGED <<db, clock>>
     \/ /\ ~ NotSignedIn
        /\ ~ IsOwnContent(v, movieId)
        /\ request' = "update"
        /\ \E t1 \in Now :
             \E t2 \in {t \in t1..(t1 + 1) : t <= MaxTime} :
               /\ clock' = t2
               /\ \/ /\ db' = Update(db, movieId, user, t2, RatingData(rating, t1))
                     /\ toast' = RatingAdded
                  \/ /\ toast' = RatingFailed
                     /\ UNCHANGED db
  /\ UNCHANGED <<nextId, user, list, sortBy, selectedYear, currentPage,
                 focus, avgInput, avgOutput, subs>>

(***************************************************************************)
(* The pagination controls, rendered when totalPages > 1.                  *)
(***************************************************************************)
PreviousDisabled(v) == currentPage[v] = 1
NextDisabled(v) == currentPage[v] = totalPages(v)
\* p => Math.max(1, p - 1)
PreviousTarget(p) == Max(1, p - 1)
\* Variant: the next page is not clamped to the page count.
NextTarget_Unclamped(v, p) == p + 1

\* p => Math.min(totalPages, p + 1)
NextTarget(v, p) == Min(totalPages(v), p + 1)

PreviousPage(v) ==
  /\ Len(list[v]) # 0
  /\ totalPages(v) > 1
  /\ ~ PreviousDisabled(v)
  /\ currentPage' = [currentPage EXCEPT ![v] = PreviousTarget(currentPage[v])]
  /\ toast' = ""
  /\ request' = "none"
  /\ UNCHANGED <<db, nextId, clock, user, list, sortBy, selectedYear,
                 focus, avgInput, avgOutput, subs>>

NextPage(v) ==
  /\ Len(list[v]) # 0
  /\ totalPages(v) > 1
  /\ ~ NextDisabled(v)
  /\ currentPage' = [currentPage EXCEPT ![v] = NextTarget(v, currentPage[v])]
  /\ toast' = ""
  /\ request' = "none"
  /\ UNCHANGED <<db, nextId, clock, user, list, sortBy, selectedYear,
                 focus, avgInput, avgOutput, subs>>

(***************************************************************************)
(* Spec: one browser session; the user signs in and out, submits titles,   *)
(* and rates and deletes through the two list views, whose subscriptions   *)
(* deliver the collection at any time.  With at most MaxRecords records a  *)
(* list never exceeds one page, so the pagination controls are not         *)
(* rendered here.                                                          *)
(***************************************************************************)
Next ==
  \/ \E u \in Users : handleSignIn(u)
  \/ handleSignOut
  \/ \E ct \in ContentTypes, rt \in FormRatings : Submit(ct, CurrentYear, rt)
  \/ \E v \in ListViews : onValue(v)
  \/ \E v \in ListViews, id \in Ids : handleDelete(v, id)
  \/ \E v \in ListViews, id \in Ids, r \in RatingChoices : handleRating(v, id, r)

Spec == Init /\ [][Next]_vars

(***************************************************************************)
(* SpecViews: the subscription of one view at a time (focus), fed with     *)
(* collections drawn from a bounded set: records of both content types and *)
(* years, with none, one or two rating entries, and a record that holds    *)
(* only ratings.                                                           *)
(***************************************************************************)
OneRating == [u \in {"u2"} |-> [k \in {0} |-> RatingData(10, k)]]
TwoRatings == [u \in {"u2"} |-> [k \in {0, 1} |-> RatingData(10, k)]]

\* The creator's rating, the creation time and the secondary ratings of the
\* records drawn.
SnapshotProfiles ==
  {[rating |-> 7, timestamp |-> 0, ratings |-> EmptyMap],
   [rating |-> 7, timestamp |-> 1, ratings |-> OneRating],
   [rating |-> 2, timestamp |-> 1, ratings |-> TwoRatings]}

SnapshotRecords ==
  {[NewRecord(ct, yr, pr.rating, "u1", pr.timestamp) EXCEPT !.ratings = pr.ratings] :
     ct \in ContentTypes, yr \in Years, pr \in SnapshotProfiles}
  \cup {[PartialRecord EXCEPT !.ratings = OneRating]}

Collections == UNION {[S -> SnapshotRecords] : S \in SUBSET Ids}

\* n records that all match view v in the current year (SpecPage).
PageCollection(v, n) ==
  [i \in 1..n |-> NewRecord(ViewContentType(v), CurrentYear, 4, "u1", 0)]

\* The collection becomes `data` (writes of any client) and the snapshot is
\* delivered to the listener of view v.
Snapshot(v, data) ==
  /\ db' = data
  /\ Deliver(v, data)

InitFocus ==
  /\ InitBackend
  /\ InitViews
  /\ focus \in Views
  /\ avgInput = PartialRecord
  /\ avgOutput = NotComputed

NextViews ==
  \/ \E data \in Collections : Snapshot(focus, data)
  \/ \E s \in {"latest", "rating"} : setSortBy(focus, s)
  \/ \E y \in Years : setSelectedYear(focus, y)

SpecViews == InitFocus /\ [][NextViews]_vars

(***************************************************************************)
(* SpecPage: the pagination of one view at a time (focus), fed with        *)
(* uniform collections of 0..MaxPageRecords records that match the view.   *)
(***************************************************************************)
NextPages ==
  \/ \E n \in 0..MaxPageRecords : Snapshot(focus, PageCollection(focus, n))
  \/ \E s \in {"latest", "rating"} : setSortBy(focus, s)
  \/ \E y \in Years : setSelectedYear(focus, y)
  \/ PreviousPage(focus)
  \/ NextPage(focus)

SpecPage == InitFocus /\ [][NextPages]_vars

(***************************************************************************)
(* SpecAvg: calculateAverageRating applied to records drawn from a bounded *)
(* set: up to two raters, each with entries under keys 1..MaxAvgKeys whose *)
(* value is a number or is missing.                                        *)
(***************************************************************************)
AvgRatings == {7, 8}
AvgValues == {4, 6, 10}
AvgRaters == {"u2", "u3"}

AvgEntries(k) ==
  {RatingData(val, k) : val \in AvgValues}
  \cup {[value |-> 0, vtype |-> "undefined", timestamp |-> k]}

\* The entry maps of one rater: a non-empty set of keys, an entry under each.
AvgEntryMaps ==
  UNION {{m \in [K -> UNION {AvgEntries(k) : k \in K}] :
            \A k \in K : m[k] \in AvgEntries(k)} :
         K \in SUBSET (1..MaxAvgKeys) \ {{}}}

AvgRecords ==
  {[NewRecord("movie", CurrentYear, rt, "u1", 0) EXCEPT !.ratings = rs] :
     rt \in AvgRatings,
     rs \in UNION {[R -> AvgEntryMaps] : R \in SUBSET AvgRaters}}

Compute ==
  /\ avgOutput = NotComputed
  /\ avgOutput' = calculateAverageRating(avgInput)
  /\ UNCHANGED <<db, nextId, clock, user, list, sortBy, selectedYear,
                 currentPage, toast, request, focus, avgInput, subs>>

InitAvg ==
  /\ InitBackend
  /\ InitViews
  /\ focus = "MovieList"
  /\ avgInput \in AvgRecords
  /\ avgOutput = NotComputed

NextAvg == Compute

SpecAvg == InitAvg /\ [][NextAvg]_vars

(***************************************************************************)
(* The aggregate as the specification defines it: the creator's rating     *)
(* and, per rater, the value of the entry with the greatest timestamp.     *)
(***************************************************************************)
LatestEntry(m) ==
  m[CHOOSE k \in DOMAIN m :
      \A j \in DOMAIN m :
        m[j].timestamp < m[k].timestamp \/ (m[j].timestamp = m[k].timestamp /\ j <= k)]

LatestRaters(movie) ==
  {u \in DOMAIN movie.ratings : IsNumberEntry(LatestEntry(movie.ratings[u]))}

RECURSIVE LatestSum(_, _)
LatestSum(movie, raters) ==
  IF raters = {} THEN 0
  ELSE LET u == CHOOSE x \in raters : TRUE
       IN LatestEntry(movie.ratings[u]).value + LatestSum(movie, raters \ {u})

\* t tenths is sum / n rounded to one decimal.
IsRounded(t, sum, n) == n * (2 * t - 1) <= 20 * sum /\ 20 * sum < n * (2 * t + 1)

\* t tenths is the aggregate of the record.
IsAggregate(t, movie) ==
  IsRounded(t, movie.rating + LatestSum(movie, LatestRaters(movie)),
            1 + Cardinality(LatestRaters(movie)))

WellFormed(movie) ==
  \A u \in DOMAIN movie.ratings :
    \A k \in DOMAIN movie.ratings[u] : IsNumberEntry(movie.ratings[u][k])

(***************************************************************************)
(* Claims.                                                                 *)
(***************************************************************************)
\* C1: the value calculateAverageRating returns for a record is the mean,
\* rounded to one decimal, of the creator's rating and one value per rater,
\* that of the rater's entry with the greatest timestamp.
C1_AverageOfLatestPerRater ==
  (avgOutput # NotComputed /\ WellFormed(avgInput))
    => IsAggregate(parseFloat(avgOutput), avgInput)

\* C2: no record created by user U holds an entry under ratings[U].
C2_NoSelfRating ==
  \A id \in DOMAIN db :
    db[id].userId \in Users => db[id].userId \notin DOMAIN db[id].ratings

\* A creator was turned away from a record of theirs that another user rated.
C2_Witness ==
  /\ toast \in {CannotRateOwn(v) : v \in ListViews}
  /\ \E id \in DOMAIN db :
       /\ db[id].userId = user
       /\ DOMAIN db[id].ratings # {}

\* C3: a rating or delete without a signed-in user, and a rating by the
\* record's creator, raise an error notification, issue no backend call and
\* leave the collection and the lists as they were.
C3_Rejected(v, id) ==
  \/ /\ \E r \in RatingChoices : handleRating(v, id, r)
     /\ \/ user = NoUser
        \/ id \in DOMAIN db /\ db[id].userId = user
     /\ toast' \in {SignInToRate, CannotRateOwn(v)}
  \/ /\ handleDelete(v, id)
     /\ user = NoUser
     /\ toast' = SignInToDelete

C3_Failing(v, id) ==
  \/ /\ \E r \in RatingChoices : handleRating(v, id, r)
     /\ \/ user = NoUser
        \/ id \in DOMAIN db /\ db[id].userId = user
  \/ /\ handleDelete(v, id)
     /\ user = NoUser

C3_PreconditionFailure ==
  [][\A v \in ListViews, id \in Ids :
       C3_Failing(v, id)
         => /\ C3_Rejected(v, id)
            /\ request' = "none"
            /\ db' = db
            /\ list' = list]_vars

\* A delete was attempted on a rendered record while signed out.
C3_Witness ==
  /\ toast = SignInToDelete
  /\ request = "none"
  /\ DOMAIN db # {}

\* C4: a delete by any signed-in user, creator or not, issues a remove of the
\* record; when it succeeds the record is gone and the others are untouched,
\* and a snapshot delivered while the record is gone gives a list without it.
C4_DeleteByAnyUser ==
  [][\A v \in ListViews, id \in Ids :
       /\ (handleDelete(v, id) /\ user # NoUser)
            => /\ request' = "remove"
               /\ toast' \in {Deleted(v), DeleteFailed(v)}
               /\ toast' = Deleted(v)
                    => /\ id \notin DOMAIN db'
                       /\ DOMAIN db' = DOMAIN db \ {id}
                       /\ \A j \in DOMAIN db' : db'[j] = db[j]
       /\ (onValue(v) /\ id \notin DOMAIN db)
            => \A i \in 1..Len(list'[v]) : list'[v][i].id # id]_vars

\* A user who did not create the record has just deleted it.
C4_Witness ==
  \E v \in ListViews :
    /\ toast = Deleted(v)
    /\ request = "remove"
    /\ Len(list[v]) = 1
    /\ list[v][1].id \notin DOMAIN db
    /\ list[v][1].movie.userId \in Users \ {user}

\* C5: the records the movie filter selects and those the tv-series filter
\* selects are disjoint and together are the whole collection.
C5_ContentTypePartition ==
  LET movies == {id \in DOMAIN db : db[id].contentType = "movie"}
      series == {id \in DOMAIN db : db[id].contentType = "tv-series"}
  IN movies \cap series = {} /\ movies \cup series = DOMAIN db

\* The aggregate of a record, in tenths.
Aggregate(movie) == CHOOSE t \in 0..100 : IsAggregate(t, movie)

\* C6: after a snapshot is processed the list of a list view is in
\* non-increasing timestamp order under sortBy = latest and in non-increasing
\* aggregate order under sortBy = rating; the list of a Top view is in
\* non-increasing aggregate order.
C6_SortedAfterSnapshot ==
  [][Deliver(focus, db')
       => LET l == list'[focus]
          IN \A i \in 1..(Len(l) - 1) :
               IF focus \in ListViews /\ sortBy[focus] = "latest"
                 THEN l[i].movie.timestamp >= l[i + 1].movie.timestamp
                 ELSE Aggregate(l[i].movie) >= Aggregate(l[i + 1].movie)]_vars

\* C7: for a list of N records, totalPages is the ceiling of N / 15, the slice
\* of page 1 has min(N, 15) items and the slice of the last page has N mod 15
\* items, or 15 when N is a positive multiple of 15.
C7_Pagination ==
  LET N == Len(list[focus])
      tp == totalPages(focus)
      shown == Len(currentMovies(focus))
  IN /\ 15 * tp >= N
     /\ 15 * tp < N + 15
     /\ currentPage[focus] = 1 => shown = Min(N, 15)
     /\ (tp >= 1 /\ currentPage[focus] = tp)
          => shown = (IF N % 15 = 0 THEN 15 ELSE N % 15)

\* The second and last page of a list of 30 records is shown.
C7_Witness ==
  /\ Len(list[focus]) = 30
  /\ currentPage[focus] = 2
  /\ Len(currentMovies(focus)) = 15

\* C8: Previous cannot be pressed on page 1 and never moves currentPage below
\* 1; Next cannot be pressed on the last page and never moves currentPage
\* above totalPages.
C8_PageControls ==
  [][/\ currentPage[focus] = 1 => ~ ENABLED PreviousPage(focus)
     /\ currentPage[focus] = totalPages(focus) => ~ ENABLED NextPage(focus)
     /\ currentPage'[focus] >= 1
     /\ PreviousPage(focus) => currentPage'[focus] = currentPage[focus] - 1
     /\ NextPage(focus) => currentPage'[focus] <= totalPages(focus)]_vars

\* The last of three pages was reached.
C8_Witness ==
  /\ totalPages(focus) = 3
  /\ currentPage[focus] = 3

\* C9: a list changes only in a step of a subscription's callback; a rating
\* or delete leaves every list as it was, and after a failed backend call
\* the views and the collection are as before.
C9_HandlerStep ==
  \E v \in ListViews, id \in Ids :
    \/ handleDelete(v, id)
    \/ \E r \in RatingChoices : handleRating(v, id, r)

C9_NoOptimisticUpdate ==
  [][/\ list' # list => \E v \in Views : onValue(v)
     /\ C9_HandlerStep => list' = list
     /\ (C9_HandlerStep /\ toast' \in {RatingFailed} \cup {DeleteFailed(v) : v \in ListViews})
          => /\ db' = db
             /\ <<list, sortBy, selectedYear, currentPage, user>>' =
                  <<list, sortBy, selectedYear, currentPage, user>>]_vars

\* A rating call has just failed on a rendered record.
C9_Witness ==
  /\ toast = RatingFailed
  /\ request = "update"
  /\ \E v \in ListViews : Len(list[v]) > 0

\* C10: the callback replaces the list by exactly the records of the snapshot
\* that match the view's contentType (and year, in a Top view), each once;
\* an empty snapshot gives the empty list.
C10_Expected(v, data) ==
  {id \in DOMAIN data :
     /\ data[id].contentType = ViewContentType(v)
     /\ v \in TopViews => data[id].year = selectedYear[v]}

C10_ReplacedWholesale ==
  [][Deliver(focus, db')
       => LET l == list'[focus]
          IN /\ {l[i].id : i \in 1..Len(l)} = C10_Expected(focus, db')
             /\ Len(l) = Cardinality(C10_Expected(focus, db'))
             /\ \A i \in 1..Len(l) : l[i].movie = db'[l[i].id]
             /\ DOMAIN db' = {} => l = <<>>]_vars

\* A Top view shows one of two records of its content type: the other is of
\* another year.
C10_Witness ==
  /\ focus \in TopViews
  /\ Len(list[focus]) = 1
  /\ Cardinality(DOMAIN db) = 2
  /\ \A id \in DOMAIN db : db[id].contentType = ViewContentType(focus)
  /\ \E id \in DOMAIN db : db[id].year # selectedYear[focus]
  /\ db[list[focus][1].id].year = selectedYear[focus]

(***************************************************************************)
(* Rating writes.                                                          *)
(***************************************************************************)
\* The step is a handleRating of the signed-in user on the record `id` of the
\* collection, created by another user, whose update call succeeded.
Rated(v, id, r) ==
  /\ handleRating(v, id, r)
  /\ toast' = RatingAdded
  /\ id \in DOMAIN db
  /\ db[id].userId \in Users \ {user}

\* The entries of user u under a record.
EntriesOf(movie, u) ==
  IF u \in DOMAIN movie.ratings THEN movie.ratings[u] ELSE EmptyMap

\* C11: a successful handleRating by signed-in non-creator V on record R adds
\* one entry under R.ratings[V], keyed by the current time, whose value is the
\* chosen rating; V's earlier entries, the other users' entries, the creator
\* fields of R and every other record are unchanged.
C11_RatingAddsOneEntry ==
  [][\A v \in ListViews, id \in Ids, r \in RatingChoices :
       Rated(v, id, r)
         => LET old == EntriesOf(db[id], user)
                new == EntriesOf(db'[id], user)
            IN /\ id \in DOMAIN db'
               /\ \E k \in clock..clock' :
                    /\ k \notin DOMAIN old
                    /\ DOMAIN new = DOMAIN old \cup {k}
                    /\ new[k].value = r
                    /\ new[k].timestamp \in clock..clock'
               /\ \A k \in DOMAIN old : k \in DOMAIN new /\ new[k] = old[k]
               /\ [db'[id] EXCEPT !.ratings = db[id].ratings] = db[id]
               /\ DOMAIN db'[id].ratings = DOMAIN db[id].ratings \cup {user}
               /\ \A w \in DOMAIN db[id].ratings \ {user} :
                    db'[id].ratings[w] = db[id].ratings[w]
               /\ DOMAIN db' = DOMAIN db
               /\ \A j \in DOMAIN db \ {id} : db'[j] = db[j]]_vars

\* C12: every successful handleRating of a user on a record raises the number
\* of entries under that user's id by one, and no rating step overwrites or
\* removes an entry the record held.
C12_HistoryRetained ==
  [][\A v \in ListViews, id \in Ids, r \in RatingChoices :
       /\ Rated(v, id, r)
            => Cardinality(DOMAIN EntriesOf(db'[id], user))
                 = Cardinality(DOMAIN EntriesOf(db[id], user)) + 1
       /\ (handleRating(v, id, r) /\ id \in DOMAIN db)
            => \A u \in DOMAIN db[id].ratings : \A k \in DOMAIN db[id].ratings[u] :
                 /\ u \in DOMAIN db'[id].ratings
                 /\ k \in DOMAIN db'[id].ratings[u]
                 /\ db'[id].ratings[u][k] = db[id].ratings[u][k]]_vars

(***************************************************************************)
(* SpecLive: one movie, created by u1, shown in two views at once, the     *)
(* list view and the Top view; ratings and deletes go through the list     *)
(* view.  Both subscriptions stay open, so a listener whose view is behind *)
(* the collection is eventually called: weak fairness of each onValue.     *)
(***************************************************************************)
LiveViews == {"MovieList", "TopMovies"}

InitLive ==
  /\ \E rt \in FormRatings :
       db = [i \in {1} |-> NewRecord("movie", CurrentYear, rt, "u1", 0)]
  /\ nextId = 2
  /\ clock = 0
  /\ InitViews
  /\ focus = "MovieList"
  /\ avgInput = PartialRecord
  /\ avgOutput = NotComputed

NextLive ==
  \/ \E u \in Users : handleSignIn(u)
  \/ handleSignOut
  \/ \E v \in LiveViews : onValue(v)
  \/ \E id \in Ids : handleDelete("MovieList", id)
  \/ \E id \in Ids, r \in RatingChoices : handleRating("MovieList", id, r)

SpecLive ==
  InitLive /\ [][NextLive]_vars /\ \A v \in LiveViews : WF_vars(onValue(v))

\* The list of view v is the one its callback computes from the collection
\* as it is now, every write so far included.
Reflects(v) ==
  list[v] = SnapshotList(db, v, IF v \in ListViews THEN sortBy[v]
                                                   ELSE selectedYear[v])

\* The last step was a rating write or a delete that succeeded.
WriteDone ==
  \/ request = "update" /\ toast = RatingAdded
  \/ request = "remove" /\ toast \in {Deleted(v) : v \in ListViews}

\* C13: with both subscriptions delivering, after every successful rating
\* write or delete each view eventually holds the list computed from a
\* snapshot that includes the write.
C13_EventuallyReflected ==
  \A v \in LiveViews : [](WriteDone => <>Reflects(v))

\* Both views show the rating another user gave to the record.
C13_Witness ==
  /\ \A v \in LiveViews :
       /\ Len(list[v]) = 1
       /\ DOMAIN list[v][1].movie.ratings # {}
       /\ Reflects(v)
  /\ DOMAIN db # {}

\* C14: in a Top view the rank of the entry at index i of page p is
\* (p - 1) * 15 + i + 1, which is the entry's position in the whole list; the
\* ranks shown on page p are exactly the positions of 1..N that lie in
\* (p - 1) * 15 + 1 .. p * 15, so that over the pages 1..totalPages every
\* position of 1..N is a rank exactly once.
C14_RankIsPosition ==
  focus \in TopViews
    => LET N == Len(list[focus])
           p == currentPage[focus]
           shown == currentMovies(focus)
       IN /\ \A index \in 0..(Len(shown) - 1) :
               /\ rank(focus, index) = (p - 1) * 15 + index + 1
               /\ rank(focus, index) \in 1..N
               /\ list[focus][rank(focus, index)] = shown[index + 1]
          /\ {rank(focus, index) : index \in 0..(Len(shown) - 1)}
               = {r \in 1..N : (p - 1) * 15 < r /\ r <= p * 15}

\* The third page of a Top view of 31 records shows one entry, of rank 31.
C14_Witness ==
  /\ focus \in TopViews
  /\ Len(list[focus]) = 31
  /\ currentPage[focus] = 3
  /\ Len(currentMovies(focus)) = 1
  /\ rank(focus, 0) = 31

(***************************************************************************)
(* SpecParams: the subscription of one view (focus) under changes of its   *)
(* parameter.  A change of sortBy / selectedYear re-runs the effect, which *)
(* registers a new listener; the backend calls a new listener with the     *)
(* collection as it is: weak fairness of onValue.                          *)
(***************************************************************************)
\* Collections of records of the view's content type, of either year, created
\* at the same time and differing in their ratings.
ParamRecords(v) ==
  {[NewRecord(ViewContentType(v), yr, pr.rating, "u1", pr.timestamp)
      EXCEPT !.ratings = pr.ratings] :
     yr \in Years, pr \in {q \in SnapshotProfiles : q.timestamp = 1}}

ParamCollections(v) == UNION {[S -> ParamRecords(v)] : S \in SUBSET Ids}

NextParams ==
  \/ \E data \in ParamCollections(focus) : Snapshot(focus, data)
  \/ \E s \in {"latest", "rating"} : setSortBy(focus, s)
  \/ \E y \in Years : setSelectedYear(focus, y)
  \/ onValue(focus)

SpecParams == InitFocus /\ [][NextParams]_vars /\ WF_vars(onValue(focus))

\* C15: after sortBy or selectedYear changes, the list of the view is derived
\* again with the new value: every call of the callback leaves the list
\* filtered and ordered by the parameter as it is then, and a list that is
\* not the one derived with the current parameter does not stay.
C15_RederivedOnChange ==
  /\ [][onValue(focus) => Reflects(focus)']_vars
  /\ [](~ Reflects(focus) => <>Reflects(focus))

\* A list view shows its records ordered by rating after the sort key was
\* changed from 'latest', under which the order was another.
C15_Witness ==
  /\ focus \in ListViews
  /\ sortBy[focus] = "rating"
  /\ Reflects(focus)
  /\ Len(list[focus]) = 2
  /\ list[focus] # SnapshotList(db, focus, "latest")

(***************************************************************************)
(* The "Your Rating" buttons of a list view.                               *)
(***************************************************************************)
\* A JavaScript value: a number, or null / undefined (its `value` is then unused).
Number(n) == [vtype |-> "number", value |-> n]
Null == [vtype |-> "null", value |-> 0]
NoValue == [vtype |-> "undefined", value |-> 0]

\* {user && user.id !== movie.userId && ...}: the buttons are rendered.
ShowsRating(movie) == user # NoUser /\ user # movie.userId

\* Variant: the entries are sorted by ascending timestamp.
lastRating_Oldest(movie, u) ==
  IF u \notin DOMAIN movie.ratings THEN Null
  ELSE LET vals == ObjectValues(movie.ratings[u])
           first == vals[CHOOSE i \in 1..Len(vals) :
                           \A j \in 1..Len(vals) :
                             \/ vals[i].timestamp < vals[j].timestamp
                             \/ vals[i].timestamp = vals[j].timestamp /\ i <= j]
       IN IF IsNumberEntry(first) THEN Number(first.value) ELSE NoValue

\* userRating ? Object.values(userRating)
\*                .sort((a, b) => b.timestamp - a.timestamp)[0]?.value : null
lastRating(movie, u) ==
  IF u \notin DOMAIN movie.ratings THEN Null
  ELSE LET vals == ObjectValues(movie.ratings[u])
           sorted == SortKeyed(<<>> \o [i \in 1..Len(vals) |->
                                          [key |-> vals[i].timestamp, item |-> vals[i]]])
       IN IF sorted = <<>> THEN NoValue
          ELSE IF IsNumberEntry(sorted[1].item) THEN Number(sorted[1].item.value)
          ELSE NoValue

\* The buttons i + 1 drawn highlighted: lastRating === i + 1.
Highlighted(movie, u) ==
  {i + 1 : i \in {j \in 0..9 : lastRating(movie, u) = Number(j + 1)}}

(***************************************************************************)
(* SpecIndicator: the buttons rendered for one record and one session.     *)
(* The record was created by u1; u2 has entries under keys of              *)
(* 1..MaxAvgKeys, or none; an entry carries the time of its key or the one *)
(* before (Date.now() is read twice), and its value is a number or is      *)
(* missing; u3 has one entry or none.                                      *)
(***************************************************************************)
RatedValues == {3, 9}

RatedEntries(k) ==
  {[value |-> val, vtype |-> "number", timestamp |-> t] :
     val \in RatedValues, t \in {k - 1, k}}
  \cup {[value |-> 0, vtype |-> "undefined", timestamp |-> k]}

RatedEntryMaps ==
  UNION {{m \in [K -> UNION {RatedEntries(k) : k \in K}] :
            \A k \in K : m[k] \in RatedEntries(k)} :
         K \in SUBSET (1..MaxAvgKeys) \ {{}}}

RatedRecords ==
  {[NewRecord("movie", CurrentYear, 4, "u1", 0) EXCEPT !.ratings = rs] :
     rs \in UNION {[R -> RatedEntryMaps] : R \in {{}, {"u2"}}}
            \cup {[u \in {"u2", "u3"} |-> IF u = "u2" THEN m ELSE OneRating["u2"]] :
                    m \in RatedEntryMaps}
            \cup {[u \in {"u3"} |-> OneRating["u2"]]}}

InitIndicator ==
  /\ InitBackend
  /\ InitSubs
  /\ list = [v \in Views |-> <<>>]
  /\ sortBy = [v \in ListViews |-> "latest"]
  /\ selectedYear = [v \in TopViews |-> CurrentYear]
  /\ currentPage = [v \in Views |-> 1]
  /\ user \in {NoUser, "u1", "u2", "u3"}
  /\ toast = ""
  /\ request = "none"
  /\ focus = "MovieList"
  /\ avgInput \in RatedRecords
  /\ avgOutput = NotComputed

\* The entry of the record is rendered.
Render ==
  /\ avgOutput = NotComputed
  /\ avgOutput' = [shown |-> ShowsRating(avgInput),
                   highlighted |-> IF ShowsRating(avgInput)
                                     THEN Highlighted(avgInput, user) ELSE {}]
  /\ UNCHANGED <<db, nextId, clock, user, list, sortBy, selectedYear,
                 currentPage, toast, request, focus, avgInput, subs>>

NextIndicator == Render

SpecIndicator == InitIndicator /\ [][NextIndicator]_vars

\* C16: the buttons are shown exactly to a signed-in user who is not the
\* record's creator; the button highlighted is the value of an entry of that
\* user with the greatest timestamp, and none is highlighted when the user has
\* no entry (or that entry has no numeric value).
C16_YourRating ==
  avgOutput # NotComputed
    => LET mine == EntriesOf(avgInput, user)
       IN /\ avgOutput.shown <=> (user # NoUser /\ user # avgInput.userId)
          /\ ~ avgOutput.shown => avgOutput.highlighted = {}
          /\ (avgOutput.shown /\ DOMAIN mine = {}) => avgOutput.highlighted = {}
          /\ (avgOutput.shown /\ DOMAIN mine # {})
               => \E k \in DOMAIN mine :
                    /\ \A j \in DOMAIN mine : mine[j].timestamp <= mine[k].timestamp
                    /\ avgOutput.highlighted =
                         (IF IsNumberEntry(mine[k]) THEN {mine[k].value} ELSE {})

\* u2 rated 9 and later 3: button 3 is highlighted.
C16_Witness ==
  /\ avgOutput # NotComputed
  /\ user = "u2"
  /\ avgOutput.shown
  /\ avgOutput.highlighted = {3}
  /\ \E k \in DOMAIN EntriesOf(avgInput, user) : EntriesOf(avgInput, user)[k].value = 9

\* The record without its entries whose value is not a number, and without
\* the raters left with no entry.
Stripped(movie) ==
  LET Valid(u) == {k \in DOMAIN movie.ratings[u] : movie.ratings[u][k].vtype = "number"}
      raters == {u \in DOMAIN movie.ratings : Valid(u) # {}}
  IN [movie EXCEPT !.ratings = [u \in raters |-> [k \in Valid(u) |-> movie.ratings[u][k]]]]

\* C17: calculateAverageRating returns a one-decimal value for a record with
\* entries whose value is missing; the value is the one it returns for the
\* record without those entries, and for a record with no valid secondary
\* rating it is the creator's rating with the decimal 0 (7 gives "7.0").
C17_MalformedExcluded ==
  avgOutput # NotComputed
    => /\ avgOutput.int \in 0..10
       /\ avgOutput.frac \in 0..9
       /\ avgOutput = calculateAverageRating(Stripped(avgInput))
       /\ DOMAIN Stripped(avgInput).ratings = {}
            => avgOutput = [int |-> avgInput.rating, frac |-> 0]

\* A record rated 7 by its creator whose only secondary entries have no
\* value: "7.0".
C17_Witness ==
  /\ avgOutput = [int |-> 7, frac |-> 0]
  /\ avgInput.rating = 7
  /\ DOMAIN avgInput.ratings # {}
  /\ DOMAIN Stripped(avgInput).ratings = {}

\* C18: in every view 1 <= currentPage <= max(1, totalPages), so that the page
\* shown of a non-empty list is not empty.
C18_PageInRange ==
  /\ 1 <= currentPage[focus]
  /\ currentPage[focus] <= Max(1, totalPages(focus))
  /\ Len(list[focus]) > 0 => Len(currentMovies(focus)) > 0

\* C19: a record id the backend handed out and that is no longer in the
\* collection does not come back: no step creates data under it.
C19_NoRecreation ==
  [][\A id \in Ids :
       (id < nextId /\ id \notin DOMAIN db) => id \notin DOMAIN db']_vars

(***************************************************************************)
(* SpecRaters: one movie, created by u1, rated through the list view by    *)
(* u2 and u3 in turn.  The list the handlers read is the one of the last   *)
(* snapshot delivered, so two ratings issued between two deliveries are    *)
(* issued on the same state of the record, as by two clients at once.      *)
(***************************************************************************)
Raters == {"u2", "u3"}
RaterChoices == {3, 9}

NextRaters ==
  \/ \E u \in Raters : handleSignIn(u)
  \/ handleSignOut
  \/ onValue("MovieList")
  \/ \E id \in Ids, r \in RaterChoices : handleRating("MovieList", id, r)

SpecRaters == InitLive /\ [][NextRaters]_vars

\* C20: a successful handleRating of one user leaves the entries of every
\* other user under the record as they were, so that after the ratings of
\* two users the record holds the entries of both; when each rater has one
\* entry the value calculateAverageRating returns is the mean of the
\* creator's rating and the two values.
C20_NoMutualOverwrite ==
  [][\A id \in Ids, r \in RaterChoices :
       (handleRating("MovieList", id, r) /\ toast' = RatingAdded /\ id \in DOMAIN db)
         => /\ id \in DOMAIN db'
            /\ user \in DOMAIN db'[id].ratings
            /\ \A w \in DOMAIN db[id].ratings \ {user} :
                 /\ w \in DOMAIN db'[id].ratings
                 /\ db'[id].ratings[w] = db[id].ratings[w]
            /\ (\A w \in DOMAIN db'[id].ratings :
                  Cardinality(DOMAIN db'[id].ratings[w]) = 1)
                 => IsAggregate(parseFloat(calculateAverageRating(db'[id])), db'[id])]_vars

\* u2 and u3 both rated the record, with different values, from a list that
\* showed it without any rating.
C20_Witness ==
  /\ toast = RatingAdded
  /\ Len(list["MovieList"]) = 1
  /\ list["MovieList"][1].movie.ratings = EmptyMap
  /\ 1 \in DOMAIN db
  /\ DOMAIN db[1].ratings = Raters
  /\ \A w \in Raters : Cardinality(DOMAIN db[1].ratings[w]) = 1
  /\ LatestEntry(db[1].ratings["u2"]).value # LatestEntry(db[1].ratings["u3"]).value

(***************************************************************************)
(* The listeners.  Elsewhere a callback is taken to close over the current *)
(* parameter; here the effect that makes it so is a step of its own.       *)
(***************************************************************************)
\* Variant: the effect returns no cleanup, so that the listener of the
\* previous run stays registered.
effect_NoCleanup(v) ==
  /\ subs.deps[v] # ViewParam(v)
  /\ subs.next[v] <= MaxListeners
  /\ subs' = [subs EXCEPT
                !.active[v] = @ \cup {Listener(subs.next[v], ViewParam(v))},
                !.next[v] = @ + 1,
                !.deps[v] = ViewParam(v),
                !.caller = 0]
  /\ toast' = ""
  /\ request' = "none"
  /\ UNCHANGED <<db, nextId, clock, user, list, sortBy, selectedYear,
                 currentPage, focus, avgInput, avgOutput>>

\* useEffect(..., [sortBy]) / useEffect(..., [selectedYear]) after a render in
\* which the dependency changed: the cleanup of the previous run calls
\* unsubscribe(), then onValue registers a callback closing over the new value.
effect(v) ==
  /\ subs.deps[v] # ViewParam(v)
  /\ subs.next[v] <= MaxListeners
  /\ subs' = [subs EXCEPT
                !.active[v] = {Listener(subs.next[v], ViewParam(v))},
                !.detached[v] = @ \cup {l.lid : l \in subs.active[v]},
                !.next[v] = @ + 1,
                !.deps[v] = ViewParam(v),
                !.caller = 0]
  /\ toast' = ""
  /\ request' = "none"
  /\ UNCHANGED <<db, nextId, clock, user, list, sortBy, selectedYear,
                 currentPage, focus, avgInput, avgOutput>>

\* The collection becomes `data` and the backend calls listener l of view v,
\* which is registered, with the snapshot.
callback(v, l, data) ==
  /\ l \in subs.active[v]
  /\ db' = data
  /\ list' = [list EXCEPT ![v] = SnapshotList(data, v, l.param)]
  /\ subs' = [subs EXCEPT !.caller = l.lid]
  /\ toast' = ""
  /\ request' = "none"
  /\ UNCHANGED <<nextId, clock, user, sortBy, selectedYear, currentPage,
                 focus, avgInput, avgOutput>>

(***************************************************************************)
(* SpecListeners: the listeners of one view (focus) under changes of its   *)
(* parameter and of the collection.                                        *)
(***************************************************************************)
Listeners(v) == {Listener(lid, p) : lid \in 1..MaxListeners,
                                    p \in IF v \in ListViews
                                            THEN {"latest", "rating"} ELSE Years}

NextListeners ==
  \/ \E s \in {"latest", "rating"} : setSortBy(focus, s)
  \/ \E y \in Years : setSelectedYear(focus, y)
  \/ effect(focus)
  \/ \E l \in Listeners(focus), data \in ParamCollections(focus) : callback(focus, l, data)

SpecListeners == InitFocus /\ [][NextListeners]_vars

\* C21: every view has exactly one registered listener at any time; a run of
\* the effect after a parameter change unsubscribes the listener of the
\* previous run and registers one for the new value; and the list of a view
\* changes only in the callback of its registered listener, never of one that
\* was unsubscribed.
C21_OneListener ==
  /\ [](\A v \in Views :
          /\ Cardinality(subs.active[v]) = 1
          /\ {l.lid : l \in subs.active[v]} \cap subs.detached[v] = {})
  /\ [][/\ effect(focus)
             => /\ {l.lid : l \in subs.active[focus]} \subseteq subs'.detached[focus]
                /\ subs'.active[focus]
                     = {Listener(subs.next[focus], ViewParam(focus))}
        /\ list'[focus] # list[focus]
             => /\ subs'.caller \in {l.lid : l \in subs.active[focus]}
                /\ subs'.caller \notin subs.detached[focus]]_vars

\* The third listener of the view, registered after two parameter changes,
\* has delivered a list; the first two are unsubscribed.
C21_Witness ==
  /\ subs.detached[focus] = {1, 2}
  /\ {l.lid : l \in subs.active[focus]} = {3}
  /\ subs.caller = 3
  /\ Len(list[focus]) > 0

(***************************************************************************)
(* The four copies of calculateAverageRating.                              *)
(***************************************************************************)
\* The position of record id in list l (0 if it is not in l).
IndexOf(l, id) ==
  IF \E i \in 1..Len(l) : l[i].id = id
    THEN CHOOSE i \in 1..Len(l) : l[i].id = id
    ELSE 0

\* C22: the copies of the four components return the same string for every
\* record of the collection, and the records a Top view shows come in the
\* same relative order in the list view of their content type sorted by
\* rating, both lists built from the same snapshot.
C22_CopiesAgree ==
  /\ \A id \in DOMAIN db : \A v, w \in Views :
       calculateAverageRatingOf(v, db[id]) = calculateAverageRatingOf(w, db[id])
  /\ \A lv \in ListViews, tv \in TopViews, y \in Years :
       ViewContentType(lv) = ViewContentType(tv)
         => LET l == SnapshotList(db, lv, "rating")
                t == SnapshotList(db, tv, y)
            IN \A i, j \in 1..Len(t) :
                 /\ IndexOf(l, t[i].id) > 0
                 /\ i < j => IndexOf(l, t[i].id) < IndexOf(l, t[j].id)

\* A Top view shows two records of the snapshot, the one created later first
\* for its higher average.
C22_Witness ==
  /\ focus \in TopViews
  /\ list[focus] = SnapshotList(db, focus, selectedYear[focus])
  /\ Len(list[focus]) = 2
  /\ list[focus][1].id > list[focus][2].id
  /\ calculateAverageRatingOf(focus, list[focus][1].movie)
       # calculateAverageRatingOf(focus, list[focus][2].movie)

(***************************************************************************)
(* Keys and timestamps of rating entries.                                  *)
(***************************************************************************)
\* C23: every rating entry of the collection is stored under a key equal to
\* its own timestamp, and a successful handleRating of a user on a record
\* writes an entry whose key and timestamp are strictly greater than those of
\* every entry the user had on the record.
C23_KeyIsTimestamp ==
  /\ [](\A id \in DOMAIN db : \A u \in DOMAIN db[id].ratings :
          \A k \in DOMAIN db[id].ratings[u] : db[id].ratings[u][k].timestamp = k)
  /\ [][\A v \in ListViews, id \in Ids, r \in RatingChoices :
          Rated(v, id, r)
            => LET old == EntriesOf(db[id], user)
                   new == EntriesOf(db'[id], user)
               IN \E k \in DOMAIN new :
                    /\ new[k].value = r
                    /\ new[k].timestamp = k
                    /\ \A j \in DOMAIN old :
                         j < k /\ old[j].timestamp < new[k].timestamp]_vars

====
